---- MODULE Spec2Model ----
(***************************************************************************)
(* TaskMaster API (src/server.js): an Express application over a Mongoose  *)
(* model Task, with two process-wide counters.                             *)
(*                                                                         *)
(* A request that awaits a database call is handled in two steps, as Node  *)
(* runs it: the synchronous part (the middleware chain and the handler up  *)
(* to its await), and the completion of the call with the code after the   *)
(* await.  That code reads only the call's result and touches only         *)
(* errorCount and the response, so it is taken together with the call's    *)
(* completion.  Handlers of different requests interleave between the two  *)
(* steps.                                                                  *)
(***************************************************************************)
EXTENDS Integers, Sequences, FiniteSets, Bags

\* ---------------------------------------------------------------- bounds
MaxInflight == 2      \* requests suspended on a database call at once
MaxRequests == 3      \* cap on requestCount
MaxIds      == 2      \* identifiers generated in one run

VARIABLES
    phase,         \* start(): "connecting", then "serving" or "degraded"
    readyState,    \* mongoose.connection.readyState
    requestCount,
    errorCount,
    store,         \* the tasks collection
    nextId,        \* the next identifier the driver generates
    now,           \* Date.now()
    reqs,          \* the requests suspended on a database call (a bag)
    resp,          \* the response sent by the last step (NoResp if none)
    deleted,       \* ids for which {message: "Task deleted"} was sent
    lastMetrics    \* the counters the last GET /metrics reported

vars == <<phase, readyState, requestCount, errorCount, store, nextId, now,
          reqs, resp, deleted, lastMetrics>>

\* ------------------------------------------------------------ JSON values
\* The strings submitted as titles: empty, blank, plain, padded.
Strings == {<<>>, <<" ">>, <<"a">>, <<" ", "a", " ">>}

\* A JSON value in the place of a title: absent, null, a string, an object.
Absent == [t |-> "missing", s |-> <<>>]
Null   == [t |-> "null", s |-> <<>>]
Obj    == [t |-> "obj", s |-> <<>>]
Str(x) == [t |-> "str", s |-> x]
CastErr == [t |-> "err", s |-> <<>>]

TitleVals == {Absent, Null, Obj} \cup {Str(x) : x \in Strings}

\* A date-valued field: null or a timestamp.
NullDate == [t |-> "null", v |-> 0]
Date(n)  == [t |-> "date", v |-> n]
AbsentDate == [t |-> "missing", v |-> 0]

\* String.prototype.trim, as the schema's trim setter applies it.
RECURSIVE TrimLeft(_)
TrimLeft(s) ==
    IF s = <<>> THEN <<>>
    ELSE IF Head(s) = " " THEN TrimLeft(Tail(s)) ELSE s

RECURSIVE TrimRight(_)
TrimRight(s) ==
    IF s = <<>> THEN <<>>
    ELSE IF s[Len(s)] = " " THEN TrimRight(SubSeq(s, 1, Len(s) - 1)) ELSE s

Trim(s) == TrimRight(TrimLeft(s))

\* A faulty variant of CastTitle: the schema without trim.
CastTitleNoTrim(v) ==
    IF v.t = "obj" THEN CastErr ELSE v

\* title: { type: String, trim: true }: the cast and the setter, applied
\* when a document is constructed and when an update is cast.
CastTitle(v) ==
    IF v.t = "str" THEN Str(Trim(v.s))
    ELSE IF v.t = "obj" THEN CastErr
    ELSE v

\* !req.body.title
TitleFalsy(v) == v.t \in {"missing", "null"} \/ (v.t = "str" /\ v.s = <<>>)

\* required: true, as the validator of a String path decides it on save.
RequiredOk(v) == v.t = "str" /\ v.s # <<>>


\* ------------------------------------------------------------------ tasks
NoTask == [id |-> 0, title |-> Null, completed |-> FALSE, createdAt |-> NullDate]

Ids == 1..MaxIds

\* req.params.id: a string that casts to an ObjectId (1..MaxIds) or one
\* that does not (0).
IdParams == 0..MaxIds

ValidObjectId(p) == p \in Ids

StoreIds(S) == {t.id : t \in S}

TaskById(S, id) == CHOOSE t \in S : t.id = id

\* The order of createdAt values in a sort: null sorts below every date.
DateLeq(a, b) == a.t = "null" \/ (b.t = "date" /\ a.v <= b.v)

First(S) == CHOOSE t \in S : \A u \in S : DateLeq(u.createdAt, t.createdAt)

\* A faulty variant of SortDesc: sort({ createdAt: 1 }).
RECURSIVE SortAsc(_)
SortAsc(S) ==
    IF S = {} THEN <<>>
    ELSE LET t == CHOOSE t \in S : \A u \in S : DateLeq(t.createdAt, u.createdAt)
         IN  <<t>> \o SortAsc(S \ {t})

\* Task.find().sort({ createdAt: -1 })
RECURSIVE SortDesc(_)
SortDesc(S) ==
    IF S = {} THEN <<>>
    ELSE LET t == First(S) IN <<t>> \o SortDesc(S \ {t})

\* new Task({ title }): the schema's cast, setter and defaults.
NewDoc(id, title, t) ==
    [id |-> id, title |-> CastTitle(title), completed |-> FALSE,
     createdAt |-> Date(t)]

\* The update findByIdAndUpdate sends: the body cast by the schema (setters
\* applied, validators not run).
ApplyPatch(task, r) ==
    [task EXCEPT
        !.title     = IF r.title.t = "missing" THEN @ ELSE r.title,
        !.completed = IF r.completed = "absent" THEN @ ELSE (r.completed = "true"),
        !.createdAt = IF r.createdAt.t = "missing" THEN @ ELSE r.createdAt]

\* A faulty variant of RemoveTask: the document is found and left in place.
RemoveNothing(S, id) == S

\* findByIdAndDelete at the database.
RemoveTask(S, id) == {t \in S : t.id # id}

\* A faulty variant of IncCounter: the counter wraps.
WrapCounter(c) == (c + 1) % 2

\* requestCount++, errorCount++
IncCounter(c) == c + 1

\* A faulty variant of MongoStatus: the comparison is made with the state 0.
MongoStatusInverted(rs) == IF rs = 0 THEN "connected" ELSE "disconnected"

\* mongoose.connection.readyState === 1 ? 'connected' : 'disconnected'
MongoStatus(rs) == IF rs = 1 THEN "connected" ELSE "disconnected"


\* --------------------------------------------------- requests, responses
\* A request suspended on its database call.  fail is the error Mongoose
\* raises for the call before it reaches the database ("none" if none);
\* seen records whether the id named a stored task when the request came.
Pending == [kind |-> "none", id |-> 0, raw |-> Absent, title |-> Absent,
            completed |-> "absent", createdAt |-> AbsentDate,
            fail |-> "none", seen |-> FALSE]

NoResp == [kind |-> "none", status |-> 0, id |-> 0, raw |-> Absent,
           out |-> "none", seen |-> FALSE, task |-> NoTask, tasks |-> <<>>,
           total |-> 0, msg |-> "", mongo |-> "", health |-> "",
           requests |-> 0, errors |-> 0]

Inflight == BagToSet(reqs)

Park(r) ==
    /\ BagCardinality(reqs) < MaxInflight
    /\ reqs' = reqs (+) SetToBag({r})

Unpark(r) == reqs' = reqs (-) SetToBag({r})

Serving == phase \in {"serving", "degraded"}

\* ---------------------------------------------------------------- start()
Init ==
    /\ phase = "connecting"
    /\ readyState = 2
    /\ requestCount = 0
    /\ errorCount = 0
    /\ store = {}
    /\ nextId = 1
    /\ now = 0
    /\ reqs = EmptyBag
    /\ resp = NoResp
    /\ deleted = {}
    /\ lastMetrics = [requests |-> 0, errors |-> 0]

\* await mongoose.connect(MONGO_URI) resolves; app.listen.
ConnectOk ==
    /\ phase = "connecting"
    /\ phase' = "serving"
    /\ readyState' = 1
    /\ resp' = NoResp
    /\ UNCHANGED <<requestCount, errorCount, store, nextId, now, reqs,
                   deleted, lastMetrics>>

\* await mongoose.connect(MONGO_URI) rejects; the catch logs; app.listen.
ConnectFail ==
    /\ phase = "connecting"
    /\ phase' = "degraded"
    /\ readyState' = 0
    /\ resp' = NoResp
    /\ UNCHANGED <<requestCount, errorCount, store, nextId, now, reqs,
                   deleted, lastMetrics>>

\* The connection drops while serving.
ConnLost ==
    /\ phase = "serving"
    /\ readyState = 1
    /\ readyState' = 0
    /\ resp' = NoResp
    /\ UNCHANGED <<phase, requestCount, errorCount, store, nextId, now, reqs,
                   deleted, lastMetrics>>

\* The driver reconnects a connection that was once established.
Reconnect ==
    /\ phase = "serving"
    /\ readyState = 0
    /\ readyState' = 1
    /\ resp' = NoResp
    /\ UNCHANGED <<phase, requestCount, errorCount, store, nextId, now, reqs,
                   deleted, lastMetrics>>

\* ------------------------------------------------- the middleware chain
\* app.use(cors()): an OPTIONS preflight is answered with 204 and next()
\* is not called, so the counter middleware does not run.
Preflight ==
    /\ Serving
    /\ resp' = [NoResp EXCEPT !.kind = "preflight", !.status = 204]
    /\ UNCHANGED <<phase, readyState, requestCount, errorCount, store, nextId,
                   now, reqs, deleted, lastMetrics>>

\* app.use(express.json()): a body that does not parse makes the parser call
\* next(err); the counter middleware and the routes are skipped and the
\* default error handler answers 400.
BadJson ==
    /\ Serving
    /\ resp' = [NoResp EXCEPT !.kind = "badjson", !.status = 400]
    /\ UNCHANGED <<phase, readyState, requestCount, errorCount, store, nextId,
                   now, reqs, deleted, lastMetrics>>

\* The counter middleware, for a request that reaches it.
Counted ==
    /\ Serving
    /\ requestCount < MaxRequests
    /\ requestCount' = IncCounter(requestCount)

\* GET /health
Health ==
    /\ Counted
    /\ resp' = [NoResp EXCEPT !.kind = "health", !.status = 200,
                              !.health = "healthy",
                              !.mongo = MongoStatus(readyState)]
    /\ UNCHANGED <<phase, readyState, errorCount, store, nextId, now, reqs,
                   deleted, lastMetrics>>

\* GET /metrics
Metrics ==
    /\ Counted
    /\ resp' = [NoResp EXCEPT !.kind = "metrics", !.status = 200,
                              !.requests = requestCount',
                              !.errors = errorCount]
    /\ lastMetrics' = [requests |-> requestCount', errors |-> errorCount]
    /\ UNCHANGED <<phase, readyState, errorCount, store, nextId, now, reqs,
                   deleted>>

\* The 404 handler, for a request no route matches.
Unmatched ==
    /\ Counted
    /\ resp' = [NoResp EXCEPT !.kind = "unmatched", !.status = 404,
                              !.msg = "Route not found"]
    /\ UNCHANGED <<phase, readyState, errorCount, store, nextId, now, reqs,
                   deleted, lastMetrics>>

\* GET /api/tasks, up to the await.
ListArrive ==
    /\ Counted
    /\ Park([Pending EXCEPT !.kind = "list"])
    /\ resp' = NoResp
    /\ UNCHANGED <<phase, readyState, errorCount, store, nextId, now,
                   deleted, lastMetrics>>

\* POST /api/tasks with a title the handler rejects.
CreateReject(title) ==
    /\ Counted
    /\ TitleFalsy(title)
    /\ resp' = [NoResp EXCEPT !.kind = "create", !.status = 400,
                              !.raw = title, !.msg = "Title is required"]
    /\ UNCHANGED <<phase, readyState, errorCount, store, nextId, now, reqs,
                   deleted, lastMetrics>>

\* POST /api/tasks, up to the await: Task.create constructs the document
\* (identifier, cast title, defaults) before it validates and saves it.
CreateArrive(title, t) ==
    /\ Counted
    /\ ~TitleFalsy(title)
    /\ nextId <= MaxIds
    /\ LET doc == NewDoc(nextId, title, t)
       IN  Park([Pending EXCEPT !.kind = "create", !.id = doc.id,
                                !.raw = title, !.title = doc.title,
                                !.createdAt = doc.createdAt,
                                !.fail = IF RequiredOk(doc.title) THEN "none"
                                         ELSE "validation"])
    /\ nextId' = nextId + 1
    /\ now' = t
    /\ resp' = NoResp
    /\ UNCHANGED <<phase, readyState, errorCount, store, deleted, lastMetrics>>

\* PUT /api/tasks/:id, up to the await.  An id or a field that does not
\* cast leaves a query that holds the cast error alone.
UpdateArrive(id, title, completed, createdAt) ==
    /\ Counted
    /\ IF ValidObjectId(id) /\ CastTitle(title) # CastErr
       THEN Park([Pending EXCEPT !.kind = "update", !.id = id,
                                 !.title = CastTitle(title),
                                 !.completed = completed,
                                 !.createdAt = createdAt])
       ELSE Park([Pending EXCEPT !.kind = "update", !.id = id,
                                 !.fail = IF ValidObjectId(id) THEN "castbody"
                                          ELSE "castid"])
    /\ resp' = NoResp
    /\ UNCHANGED <<phase, readyState, errorCount, store, nextId, now,
                   deleted, lastMetrics>>

\* DELETE /api/tasks/:id, up to the await.
DeleteArrive(id) ==
    /\ Counted
    /\ Park([Pending EXCEPT !.kind = "delete", !.id = id,
                            !.seen = (id \in StoreIds(store)),
                            !.fail = IF ValidObjectId(id) THEN "none"
                                     ELSE "castid"])
    /\ resp' = NoResp
    /\ UNCHANGED <<phase, readyState, errorCount, store, nextId, now,
                   deleted, lastMetrics>>

\* ------------------------------- the database calls and what follows them
\* The call runs at the database: readyState is 1 and Mongoose raised no
\* error of its own.
Runs(r, kind) ==
    /\ r.kind = kind
    /\ r.fail = "none"
    /\ readyState = 1
    /\ Unpark(r)

\* await Task.find().sort({ createdAt: -1 }); res.json({ tasks, total }).
ListDone(r) ==
    /\ Runs(r, "list")
    /\ LET tasks == SortDesc(store)
       IN  resp' = [NoResp EXCEPT !.kind = "list", !.status = 200,
                                  !.out = "ok", !.tasks = tasks,
                                  !.total = Len(tasks)]
    /\ UNCHANGED <<phase, readyState, requestCount, errorCount, store, nextId,
                   now, deleted, lastMetrics>>

\* await Task.create({ title: req.body.title }); res.status(201).json(task).
CreateDone(r) ==
    /\ Runs(r, "create")
    /\ LET doc == [id |-> r.id, title |-> r.title, completed |-> FALSE,
                   createdAt |-> r.createdAt]
       IN  /\ store' = store \cup {doc}
           /\ resp' = [NoResp EXCEPT !.kind = "create", !.status = 201,
                                     !.out = "ok", !.id = r.id,
                                     !.raw = r.raw, !.task = doc]
    /\ UNCHANGED <<phase, readyState, requestCount, errorCount, nextId, now,
                   deleted, lastMetrics>>

\* await Task.findByIdAndUpdate(req.params.id, req.body, { new: true });
\* 404 if it resolved to null, else res.json(task).
UpdateDone(r) ==
    /\ Runs(r, "update")
    /\ IF r.id \in StoreIds(store)
       THEN LET new == ApplyPatch(TaskById(store, r.id), r)
            IN  /\ store' = (store \ {TaskById(store, r.id)}) \cup {new}
                /\ resp' = [NoResp EXCEPT !.kind = "update", !.status = 200,
                                          !.out = "ok", !.id = r.id,
                                          !.task = new]
       ELSE /\ store' = store
            /\ resp' = [NoResp EXCEPT !.kind = "update", !.status = 404,
                                      !.out = "notfound", !.id = r.id,
                                      !.msg = "Task not found"]
    /\ UNCHANGED <<phase, readyState, requestCount, errorCount, nextId, now,
                   deleted, lastMetrics>>

\* await Task.findByIdAndDelete(req.params.id); 404 if it resolved to null,
\* else res.json({ message: 'Task deleted' }).
DeleteDone(r) ==
    /\ Runs(r, "delete")
    /\ IF r.id \in StoreIds(store)
       THEN /\ store' = RemoveTask(store, r.id)
            /\ resp' = [NoResp EXCEPT !.kind = "delete", !.status = 200,
                                      !.out = "ok", !.id = r.id,
                                      !.seen = r.seen,
                                      !.msg = "Task deleted"]
            /\ deleted' = deleted \cup {r.id}
       ELSE /\ store' = store
            /\ resp' = [NoResp EXCEPT !.kind = "delete", !.status = 404,
                                      !.out = "notfound", !.id = r.id,
                                      !.seen = r.seen,
                                      !.msg = "Task not found"]
            /\ deleted' = deleted
    /\ UNCHANGED <<phase, readyState, requestCount, errorCount, nextId, now,
                   lastMetrics>>

\* The handler's catch block: errorCount++; res.status(500).json(...).
Catch(r, cause) ==
    /\ Unpark(r)
    /\ errorCount' = IncCounter(errorCount)
    /\ resp' = [NoResp EXCEPT !.kind = r.kind, !.status = 500,
                              !.out = cause, !.id = r.id, !.raw = r.raw,
                              !.seen = r.seen, !.msg = cause]
    /\ UNCHANGED <<phase, readyState, requestCount, store, nextId, now,
                   deleted, lastMetrics>>

\* The awaited call is rejected by Mongoose itself: the document fails
\* validation, or the id or the update does not cast.
Rejected(r) ==
    /\ r.fail # "none"
    /\ Catch(r, r.fail)

\* The awaited call is buffered while there is no connection and rejected
\* when the buffer times out.
TimedOut(r) ==
    /\ r.fail = "none"
    /\ readyState # 1
    /\ Catch(r, "storage")

\* ------------------------------------------------------- the specification
\* The update bodies: {}, {title}, {completed: true}, {createdAt: null}.
Patches ==
    {[title |-> v, completed |-> "absent", createdAt |-> AbsentDate] :
        v \in TitleVals}
    \cup {[title |-> Absent, completed |-> "true", createdAt |-> AbsentDate],
          [title |-> Absent, completed |-> "absent", createdAt |-> NullDate]}

Next ==
    \/ ConnectOk
    \/ ConnectFail
    \/ ConnLost
    \/ Reconnect
    \/ Preflight
    \/ BadJson
    \/ Health
    \/ Metrics
    \/ Unmatched
    \/ ListArrive
    \/ \E title \in TitleVals : CreateReject(title)
    \/ \E title \in TitleVals, t \in {now, now + 1} : CreateArrive(title, t)
    \/ \E id \in IdParams, p \in Patches :
          UpdateArrive(id, p.title, p.completed, p.createdAt)
    \/ \E id \in IdParams : DeleteArrive(id)
    \/ \E r \in Inflight : ListDone(r)
    \/ \E r \in Inflight : CreateDone(r)
    \/ \E r \in Inflight : UpdateDone(r)
    \/ \E r \in Inflight : DeleteDone(r)
    \/ \E r \in Inflight : Rejected(r)
    \/ \E r \in Inflight : TimedOut(r)

Spec == Init /\ [][Next]_vars

\* ------------------------------------------------------------- the claims
TaskRoutes == {"list", "create", "update", "delete"}

\* A title that is absent, or empty once trimmed.
EmptyTitle(v) ==
    v.t \in {"missing", "null"} \/ (v.t = "str" /\ Trim(v.s) = <<>>)

\* A request came in this step: it was answered at once or it was parked.
Arrived ==
    \/ resp'.kind \in {"preflight", "badjson", "health", "metrics", "unmatched"}
    \/ resp'.kind = "create" /\ resp'.status = 400
    \/ BagCardinality(reqs') > BagCardinality(reqs)

\* C1: every task in the store has a title that is a non-empty string once
\* trimmed, in every state POST, PUT and DELETE requests reach.
C1_TitleNonEmpty ==
    \A t \in store : t.title.t = "str" /\ Trim(t.title.s) # <<>>

\* C2: a POST /api/tasks whose title is missing or empty (also when it is
\* empty only once trimmed) is answered 400 and leaves the store unchanged
\* (stated for the connected database, where no storage error is due).
C2_EmptyTitleIs400 ==
    [][(resp'.kind = "create" /\ EmptyTitle(resp'.raw) /\ readyState = 1)
          => (resp'.status = 400 /\ store' = store)]_vars

\* C3: a response of a task route with status 400, 404 or 500 is sent in a
\* step that raises errorCount by exactly one.
C3_FailureCounted ==
    [][(resp'.kind \in TaskRoutes /\ resp'.status \in {400, 404, 500})
          => errorCount' = errorCount + 1]_vars

\* C4: every inbound request, those answered by the CORS or the JSON
\* middleware included, raises requestCount by exactly one in the step it
\* comes in.
C4_EveryRequestCounted ==
    [][Arrived => requestCount' = requestCount + 1]_vars

\* C5: a PUT or DELETE whose id names no stored task, whatever the form of
\* the id, is answered 404 "Task not found" and leaves the store unchanged
\* (stated for the connected database and a body that casts).
C5_UnknownIdIs404 ==
    [][(/\ resp'.kind \in {"update", "delete"}
        /\ resp'.id \notin StoreIds(store)
        /\ readyState = 1
        /\ resp'.out # "castbody")
          => (/\ resp'.status = 404
              /\ resp'.msg = "Task not found"
              /\ store' = store)]_vars

\* C6: GET /health is answered 200 "healthy" in every state, its mongo field
\* is "connected" exactly when readyState is 1 at the request and
\* "disconnected" otherwise, and the store is left as it was.
C6_Health ==
    [][resp'.kind = "health"
          => (/\ resp'.status = 200
              /\ resp'.health = "healthy"
              /\ resp'.mongo \in {"connected", "disconnected"}
              /\ (resp'.mongo = "connected") <=> (readyState = 1)
              /\ store' = store)]_vars

\* C6 witness: a health response sent in degraded mode, after the startup
\* connection failed.
C6_Witness ==
    /\ phase = "degraded"
    /\ resp.kind = "health"
    /\ resp.mongo = "disconnected"

\* C7: a POST /api/tasks with a title that is non-empty once trimmed, the
\* storage being reachable, is answered 201 with a task whose id is new,
\* whose title is the trimmed title, completed false and createdAt a date;
\* the store gains exactly that task and keeps all others as they were.
C7_Create ==
    [][(/\ resp'.kind = "create"
        /\ resp'.raw.t = "str"
        /\ Trim(resp'.raw.s) # <<>>
        /\ resp'.out # "storage")
          => (/\ resp'.status = 201
              /\ resp'.task.id \notin StoreIds(store)
              /\ resp'.task.title = Str(Trim(resp'.raw.s))
              /\ resp'.task.completed = FALSE
              /\ resp'.task.createdAt.t = "date"
              /\ store' = store \cup {resp'.task}
              /\ Cardinality(store') = Cardinality(store) + 1)]_vars

\* C7 witness: a padded title was created, trimmed, beside an earlier task.
C7_Witness ==
    /\ resp.kind = "create"
    /\ resp.status = 201
    /\ resp.raw.s # resp.task.title.s
    /\ resp.task \in store
    /\ Cardinality(store) = 2

\* C8: a DELETE is confirmed only for a stored task, at most once per id,
\* and removes that task alone; a confirmed id never returns to the store
\* nor to the result of a GET /api/tasks that reads after the confirmation;
\* a DELETE that came while the task was stored and is answered 404 lost to
\* another DELETE that was confirmed.
C8_Delete ==
    [][/\ (resp'.kind = "delete" /\ resp'.status = 200)
            => (/\ resp'.msg = "Task deleted"
                /\ resp'.id \in StoreIds(store)
                /\ resp'.id \notin deleted
                /\ store' = {t \in store : t.id # resp'.id})
       /\ (resp'.kind = "delete" /\ resp'.status = 404 /\ resp'.seen)
            => resp'.id \in deleted
       /\ (resp'.kind = "list" /\ resp'.status = 200)
            => \A i \in 1..Len(resp'.tasks) : resp'.tasks[i].id \notin deleted
       /\ deleted \subseteq deleted'
       /\ StoreIds(store') \cap deleted' = {}]_vars

\* C8 witness: of two DELETEs in flight for a stored task, one was confirmed
\* and the other is answered 404.
C8_Witness ==
    /\ resp.kind = "delete"
    /\ resp.status = 404
    /\ resp.seen
    /\ resp.id \in deleted

\* C9: every step changes requestCount and errorCount by 0 or +1, and a
\* GET /metrics reports values no smaller than the last one reported.
C9_Monotonic ==
    [][/\ requestCount' - requestCount \in {0, 1}
       /\ errorCount' - errorCount \in {0, 1}
       /\ resp'.kind = "metrics"
            => (/\ resp'.requests >= lastMetrics.requests
                /\ resp'.errors >= lastMetrics.errors)]_vars

\* C9 witness: a GET /metrics that comes last, after an error, reports it.
C9_Witness ==
    /\ resp.kind = "metrics"
    /\ resp.errors > 0
    /\ resp.requests = MaxRequests

\* C10: a GET /api/tasks answered 200 returns exactly the stored tasks, by
\* createdAt descending, with total the length of the sequence, and leaves
\* the store unchanged.
C10_List ==
    [][(resp'.kind = "list" /\ resp'.status = 200)
          => LET ts == resp'.tasks IN
             /\ {ts[i] : i \in 1..Len(ts)} = store
             /\ Len(ts) = Cardinality(store)
             /\ \A i \in 1..(Len(ts) - 1) :
                    DateLeq(ts[i + 1].createdAt, ts[i].createdAt)
             /\ resp'.total = Len(ts)
             /\ store' = store]_vars

\* C10 witness: two tasks of different createdAt are listed.
C10_Witness ==
    /\ resp.kind = "list"
    /\ Len(resp.tasks) = 2
    /\ resp.tasks[1].createdAt # resp.tasks[2].createdAt

====
